---- MODULE Spec2Model ----
(***************************************************************************)
(* A model of the note store of echosprint/note: the flat-file codec       *)
(* (src/src/parser.rs), the identifier generator (src/src/note.rs) and the *)
(* store operations (src/src/manager.rs).                                  *)
(*                                                                         *)
(* A Rust String is a sequence of one-character strings, so that escaping, *)
(* trimming, line splitting and header parsing are computed character by   *)
(* character as the code computes them.                                    *)
(***************************************************************************)
EXTENDS Integers, Sequences, FiniteSets, TLC

VARIABLES
    pc,           \* position of the probe that applies a pure function
    local_tz,     \* the environment's Local time zone
    clock,        \* what Local::now() returns while a probe runs
    content,      \* escape probe: escape_content's argument
    escaped,      \* escape probe: escape_content(content)
    unescaped,    \* escape probe: unescape_content(escaped)
    header_date,  \* parse probe: the first header's timestamp text
    body,         \* parse probe: the lines under the first header
    rest,         \* parse probe: the text after the first block
    coll,         \* round-trip probe: the collection handed to save_notes
    probe_text,   \* the text parse_notes_from_text is applied to
    parsed,       \* what parse_notes_from_text returned
    gen_existing, \* generator probe: generate_unique_id's existing_ids
    gen_oracle,   \* generator probe: the hashes the loop computes
    new_id,       \* generator probe: what generate_unique_id returned
    gen_counter,  \* generator probe: the loop's counter at the return
    notes,        \* NoteManager.notes
    file,         \* the store file (NoteManager.notes_file)
    result,       \* what the last NoteManager operation returned
    steps,        \* operations run so far
    procs         \* race: the processes that run add on the store file

escapeVars == <<content, escaped, unescaped>>
parseVars == <<header_date, body, rest, coll, probe_text, parsed>>
genVars == <<gen_existing, gen_oracle, new_id, gen_counter>>
storeVars == <<notes, file, result, steps, procs>>
vars == <<pc, local_tz, clock, escapeVars, parseVars, genVars, storeVars>>

(***************************************************************************)
(* Bounds of the model.                                                    *)
(***************************************************************************)
MaxLen == 4         \* longest content string of the escape probe
MaxContentLen == 3  \* longest content string of the round-trip probe
MaxProbes == 1      \* hashes an oracle lists before its constant tail
MaxExisting == 2    \* longest existing_ids list of the generator probe
MaxOps == 2         \* NoteManager operations in one behaviour

(***************************************************************************)
(* Characters and the str methods the code calls.                          *)
(***************************************************************************)
NL == "\n"
CR == "\r"
SP == " "
HASH == "#"
BSL == "\\"

\* char::is_whitespace, restricted to the whitespace the model's texts hold
IsWhitespace(c) == c \in {SP, NL, CR, "\t"}

\* every string over the alphabet A of length at most n
StringsUpTo(A, n) == UNION {[1..k -> A] : k \in 0..n}

\* str::starts_with
StartsWith(s, p) == Len(s) >= Len(p) /\ SubSeq(s, 1, Len(p)) = p

\* str::trim_start
TrimStart(s) ==
    IF \A i \in 1..Len(s) : IsWhitespace(s[i]) THEN <<>>
    ELSE LET first == CHOOSE i \in 1..Len(s) :
                          /\ ~IsWhitespace(s[i])
                          /\ \A j \in 1..(i - 1) : IsWhitespace(s[j])
         IN  SubSeq(s, first, Len(s))

\* str::trim_end
TrimEnd(s) ==
    IF \A i \in 1..Len(s) : IsWhitespace(s[i]) THEN <<>>
    ELSE LET last == CHOOSE i \in 1..Len(s) :
                         /\ ~IsWhitespace(s[i])
                         /\ \A j \in (i + 1)..Len(s) : IsWhitespace(s[j])
         IN  SubSeq(s, 1, last)

\* str::trim
Trim(s) == TrimEnd(TrimStart(s))

\* str::find for a pattern p: the index (from 1) of the first occurrence, 0 if none
Find(s, p) ==
    LET hits == {i \in 1..(Len(s) - Len(p) + 1) : SubSeq(s, i, i + Len(p) - 1) = p}
    IN  IF hits = {} THEN 0 ELSE CHOOSE i \in hits : \A j \in hits : i <= j

\* str::split(c)
RECURSIVE SplitOn(_, _)
SplitOn(s, c) ==
    LET i == Find(s, <<c>>)
    IN  IF i = 0 THEN <<s>>
        ELSE <<SubSeq(s, 1, i - 1)>> \o SplitOn(SubSeq(s, i + 1, Len(s)), c)

\* str::lines: split at "\n", a final empty piece is no line, and a "\r" that
\* ends a line is not part of it
Lines(s) ==
    LET parts == SplitOn(s, NL)
        kept  == IF parts[Len(parts)] = <<>>
                 THEN SubSeq(parts, 1, Len(parts) - 1) ELSE parts
        strip(l) == IF Len(l) > 0 /\ l[Len(l)] = CR
                    THEN SubSeq(l, 1, Len(l) - 1) ELSE l
    IN  [i \in 1..Len(kept) |-> strip(kept[i])]

\* [String]::join(sep)
RECURSIVE Join(_, _)
Join(ss, sep) ==
    IF Len(ss) = 0 THEN <<>>
    ELSE IF Len(ss) = 1 THEN ss[1]
    ELSE ss[1] \o sep \o Join(Tail(ss), sep)

\* str::split_whitespace
RECURSIVE SplitWhitespace(_)
SplitWhitespace(s) ==
    LET t == TrimStart(s)
    IN  IF t = <<>> THEN <<>>
        ELSE LET ws  == {i \in 1..Len(t) : IsWhitespace(t[i])}
                 cut == IF ws = {} THEN Len(t) + 1
                        ELSE CHOOSE i \in ws : \A j \in ws : i <= j
             IN  <<SubSeq(t, 1, cut - 1)>>
                     \o SplitWhitespace(SubSeq(t, cut, Len(t)))

(***************************************************************************)
(* NoteParser::escape_content and NoteParser::unescape_content.            *)
(***************************************************************************)
\* a line written as it is
keep_line(line) == line

escape_line(line) ==
    IF StartsWith(TrimStart(line), <<HASH>>) THEN <<BSL>> \o line ELSE line

escape_content(c) ==
    LET ls == Lines(c)
    IN  Join([i \in 1..Len(ls) |-> escape_line(ls[i])], <<NL>>)

unescape_line(line) ==
    IF StartsWith(TrimStart(line), <<BSL, HASH>>)
    THEN SubSeq(line, Find(line, <<BSL, HASH>>) + 1, Len(line))
    ELSE line

unescape_content(c) ==
    LET ls == Lines(c)
    IN  Join([i \in 1..Len(ls) |-> unescape_line(ls[i])], <<NL>>)

(***************************************************************************)
(* chrono: calendar arithmetic.  A DateTime<Local> is an instant, held as  *)
(* whole seconds since 1970-01-01T00:00:00Z and the nanoseconds within the *)
(* second; the Local time zone maps instants to offsets.                   *)
(***************************************************************************)
Timestamp(secs, nanos) == [secs |-> secs, nanos |-> nanos]

\* Ord for DateTime: the order of the instants
TsLess(a, b) == a.secs < b.secs \/ (a.secs = b.secs /\ a.nanos < b.nanos)

IsLeapYear(y) == (y % 4 = 0 /\ y % 100 # 0) \/ y % 400 = 0

DaysInMonth(y, m) ==
    IF m = 2 THEN (IF IsLeapYear(y) THEN 28 + 1 ELSE 28)
    ELSE IF m \in {4, 6, 9, 11} THEN 30 ELSE 31

\* NaiveDate::from_ymd_opt succeeds
ValidYmd(y, m, d) == m \in 1..12 /\ d >= 1 /\ d <= DaysInMonth(y, m)

\* days from 1970-01-01 to the civil date y-m-d
DaysFromCivil(y, m, d) ==
    LET yy  == IF m <= 2 THEN y - 1 ELSE y
        era == yy \div 400
        yoe == yy - era * 400
        mp  == IF m > 2 THEN m - 3 ELSE m + 9
        doy == (153 * mp + 2) \div 5 + d - 1
        doe == yoe * 365 + yoe \div 4 - yoe \div 100 + doy
    IN  era * 146097 + doe - 719468

\* the civil date of a day number
CivilFromDays(z) ==
    LET zz  == z + 719468
        era == zz \div 146097
        doe == zz - era * 146097
        yoe == (doe - doe \div 1460 + doe \div 36524 - doe \div 146096) \div 365
        doy == doe - (365 * yoe + yoe \div 4 - yoe \div 100)
        mp  == (5 * doy + 2) \div 153
        d   == doy - (153 * mp + 2) \div 5 + 1
        m   == IF mp < 10 THEN mp + 3 ELSE mp - 9
        y   == yoe + era * 400 + (IF m <= 2 THEN 1 ELSE 0)
    IN  [y |-> y, m |-> m, d |-> d]

\* seconds since the epoch of a civil date and time of day read as UTC
NaiveSecs(y, m, d, hh, mi, ss) ==
    DaysFromCivil(y, m, d) * 86400 + hh * 3600 + mi * 60 + ss

(***************************************************************************)
(* The Local time zone is the environment's.  Two zones are modelled: one  *)
(* with a fixed offset (+08:00) and one with daylight saving whose         *)
(* transitions fall on local midnight (America/Havana in 2024: clocks go   *)
(* from 00:00 to 01:00 on 2024-03-10 and from 01:00 back to 00:00 on       *)
(* 2024-11-03).                                                            *)
(***************************************************************************)
TimeZones == {"Fixed", "Havana"}

HavanaStd == -5 * 3600
HavanaDst == -4 * 3600
HavanaDstStartUtc == NaiveSecs(2024, 3, 10, 5, 0, 0)
HavanaDstEndUtc == NaiveSecs(2024, 11, 3, 5, 0, 0)

\* the offsets a zone ever uses
ZoneOffsets(tz) == IF tz = "Fixed" THEN {8 * 3600} ELSE {HavanaStd, HavanaDst}

\* TimeZone::offset_from_utc_datetime: the offset in force at an instant
OffsetAtUtc(tz, secs) ==
    IF tz = "Fixed" THEN 8 * 3600
    ELSE IF secs >= HavanaDstStartUtc /\ secs < HavanaDstEndUtc
         THEN HavanaDst ELSE HavanaStd

\* TimeZone::offset_from_local_datetime: the offsets under which the naive
\* local time exists (LocalResult::None, Single or Ambiguous)
LocalResult(tz, naive) ==
    {o \in ZoneOffsets(tz) : OffsetAtUtc(tz, naive - o) = o}

(***************************************************************************)
(* Digits and numbers in text.                                             *)
(***************************************************************************)
DigitChars == <<"0", "1", "2", "3", "4", "5", "6", "7", "8", "9">>

IsDigit(c) == \E i \in 1..10 : DigitChars[i] = c

DigitVal(c) == (CHOOSE i \in 1..10 : DigitChars[i] = c) - 1

\* n written with exactly w digits, zero padded
RECURSIVE Pad(_, _)
Pad(n, w) == IF w = 0 THEN <<>> ELSE Pad(n \div 10, w - 1) \o <<DigitChars[(n % 10) + 1]>>

\* how many of the characters from position i on are digits, at most maxw
RECURSIVE NumLen(_, _, _)
NumLen(s, i, maxw) ==
    IF maxw = 0 \/ i > Len(s) \/ ~IsDigit(s[i]) THEN 0
    ELSE 1 + NumLen(s, i + 1, maxw - 1)

\* the value of the k digits from position i
RECURSIVE NumVal(_, _, _)
NumVal(s, i, k) ==
    IF k = 0 THEN 0 ELSE NumVal(s, i, k - 1) * 10 + DigitVal(s[i + k - 1])

(***************************************************************************)
(* DateTime::to_rfc3339: YYYY-MM-DDTHH:MM:SS[.fraction]+HH:MM in the local *)
(* offset, the fraction with 0, 3, 6 or 9 digits (SecondsFormat::AutoSi).  *)
(***************************************************************************)
FormatFraction(nanos) ==
    IF nanos = 0 THEN <<>>
    ELSE IF nanos % 1000000 = 0 THEN <<".">> \o Pad(nanos \div 1000000, 3)
    ELSE IF nanos % 1000 = 0 THEN <<".">> \o Pad(nanos \div 1000, 6)
    ELSE <<".">> \o Pad(nanos, 9)

FormatOffset(off) ==
    LET a == IF off < 0 THEN -off ELSE off
    IN  <<IF off < 0 THEN "-" ELSE "+">>
            \o Pad(a \div 3600, 2) \o <<":">> \o Pad((a % 3600) \div 60, 2)

to_rfc3339(ts, tz) ==
    LET off   == OffsetAtUtc(tz, ts.secs)
        local == ts.secs + off
        date  == CivilFromDays(local \div 86400)
        sod   == local % 86400
    IN  Pad(date.y, 4) \o <<"-">> \o Pad(date.m, 2) \o <<"-">> \o Pad(date.d, 2)
            \o <<"T">> \o Pad(sod \div 3600, 2) \o <<":">>
            \o Pad((sod % 3600) \div 60, 2) \o <<":">> \o Pad(sod % 60, 2)
            \o FormatFraction(ts.nanos) \o FormatOffset(off)

(***************************************************************************)
(* chrono::format::parse.  A format is a sequence of items: "Y", "m", "d", *)
(* "H", "M", "S" are numbers of at most 4 or 2 digits (padding is not      *)
(* required when parsing), "z" is a numeric offset (+HHMM or +HH:MM),      *)
(* "Z" is an offset that may also be written Z, "T" is the RFC 3339 date   *)
(* and time separator, "f" an optional fraction of a second, "sp" any      *)
(* amount of whitespace, "bad" an item the format language does not know   *)
(* (%#m, %#d), and any other item is a literal character.                  *)
(***************************************************************************)
NoFields ==
    [ok |-> FALSE, Y |-> -1, m |-> -1, d |-> -1, H |-> -1, M |-> -1, S |-> -1,
     ns |-> 0, off |-> 0, hasoff |-> FALSE]

ItemWidth(it) == IF it = "Y" THEN 4 ELSE 2

RECURSIVE SkipSpaces(_, _)
SkipSpaces(s, i) ==
    IF i <= Len(s) /\ IsWhitespace(s[i]) THEN SkipSpaces(s, i + 1) ELSE i

\* the nanoseconds written by the k fraction digits from position i
FractionNanos(s, i, k) ==
    LET used == IF k > 9 THEN 9 ELSE k
        RECURSIVE Scale(_, _)
        Scale(v, n) == IF n = 0 THEN v ELSE Scale(v * 10, n - 1)
    IN  Scale(NumVal(s, i, used), 9 - used)

RECURSIVE Scan(_, _, _, _, _)
Scan(s, i, fmt, j, f) ==
    IF j > Len(fmt) THEN [f EXCEPT !.ok = (i > Len(s))]
    ELSE LET it == fmt[j] IN
    CASE it = "bad" -> NoFields
      [] it = "sp" -> Scan(s, SkipSpaces(s, i), fmt, j + 1, f)
      [] it \in {"Y", "m", "d", "H", "M", "S"} ->
            LET k == NumLen(s, i, ItemWidth(it))
            IN  IF k = 0 THEN NoFields
                ELSE Scan(s, i + k, fmt, j + 1, [f EXCEPT ![it] = NumVal(s, i, k)])
      [] it = "T" ->
            IF i <= Len(s) /\ s[i] \in {"T", "t", SP}
            THEN Scan(s, i + 1, fmt, j + 1, f) ELSE NoFields
      [] it = "f" ->
            IF i <= Len(s) /\ s[i] = "."
            THEN LET k == NumLen(s, i + 1, Len(s))
                 IN  IF k = 0 THEN NoFields
                     ELSE Scan(s, i + 1 + k, fmt, j + 1,
                               [f EXCEPT !.ns = FractionNanos(s, i + 1, k)])
            ELSE Scan(s, i, fmt, j + 1, f)
      [] it \in {"z", "Z"} ->
            IF it = "Z" /\ i <= Len(s) /\ s[i] \in {"Z", "z"}
            THEN Scan(s, i + 1, fmt, j + 1, [f EXCEPT !.off = 0, !.hasoff = TRUE])
            ELSE IF i <= Len(s) /\ s[i] \in {"+", "-"} /\ NumLen(s, i + 1, 2) = 2
            THEN LET colon == i + 3 <= Len(s) /\ s[i + 3] = ":"
                     mpos  == IF colon THEN i + 4 ELSE i + 3
                     hh    == NumVal(s, i + 1, 2)
                     mm    == NumVal(s, mpos, 2)
                     secs  == hh * 3600 + mm * 60
                 IN  IF NumLen(s, mpos, 2) = 2 /\ mm < 60
                     THEN Scan(s, mpos + 2, fmt, j + 1,
                               [f EXCEPT !.off = IF s[i] = "-" THEN -secs ELSE secs,
                                         !.hasoff = TRUE])
                     ELSE NoFields
            ELSE NoFields
      [] OTHER ->
            IF i <= Len(s) /\ s[i] = it
            THEN Scan(s, i + 1, fmt, j + 1, f) ELSE NoFields

ParseFields(s, fmt) == Scan(s, 1, fmt, 1, NoFields)

\* Parsed::to_naive_date
FieldsHaveDate(f) == f.ok /\ f.Y >= 0 /\ f.m >= 0 /\ f.d >= 0 /\ ValidYmd(f.Y, f.m, f.d)

\* Parsed::to_naive_time
FieldsHaveTime(f) ==
    f.ok /\ f.H >= 0 /\ f.H < 24 /\ f.M >= 0 /\ f.M < 60 /\ f.S >= 0 /\ f.S < 60

Err == [ok |-> FALSE]

\* Parsed::to_datetime: a DateTime<FixedOffset> needs the date, the time and
\* the offset; without an offset in the input the result is Err(NotEnough)
FieldsToDateTime(f) ==
    IF FieldsHaveDate(f) /\ FieldsHaveTime(f) /\ f.hasoff
    THEN [ok |-> TRUE,
          ts |-> Timestamp(NaiveSecs(f.Y, f.m, f.d, f.H, f.M, f.S) - f.off, f.ns)]
    ELSE Err

\* the formats the parser names
FmtRfc3339 == <<"Y", "-", "m", "-", "d", "T", "H", ":", "M", ":", "S", "f", "Z">>
FmtDateTimeZone ==
    <<"Y", "-", "m", "-", "d", "sp", "H", ":", "M", ":", "S", "sp", "z">>
FmtDateTime == <<"Y", "-", "m", "-", "d", "sp", "H", ":", "M", ":", "S">>
FmtSlashDate == <<"Y", "/", "m", "/", "d">>
FmtDashDate == <<"Y", "-", "m", "-", "d">>
FmtSlashDateWin == <<"Y", "/", "bad", "/", "bad">>
FmtDashDateWin == <<"Y", "-", "bad", "-", "bad">>

\* DateTime::parse_from_rfc3339
parse_from_rfc3339(s) == FieldsToDateTime(ParseFields(s, FmtRfc3339))

\* DateTime::parse_from_str
DateTime_parse_from_str(s, fmt) == FieldsToDateTime(ParseFields(s, fmt))

\* NaiveDate::parse_from_str, the date as its day number
FieldsToDate(f) ==
    IF FieldsHaveDate(f) THEN [ok |-> TRUE, days |-> DaysFromCivil(f.Y, f.m, f.d)]
    ELSE Err

NaiveDate_parse_from_str(s, fmt) == FieldsToDate(ParseFields(s, fmt))

\* str::parse::<u32>() and, for the values the model holds, parse::<i32>():
\* the value of a non-empty string of digits, -1 for Err
ParseInt(s) ==
    IF Len(s) > 0 /\ Len(s) <= 4 /\ NumLen(s, 1, Len(s)) = Len(s)
    THEN NumVal(s, 1, Len(s)) ELSE -1

(***************************************************************************)
(* NoteParser::parse_manual_date and NoteParser::parse_simple_date.        *)
(***************************************************************************)
\* NaiveDate::from_ymd_opt on the parsed numbers, -1 for one that did not parse
from_ymd_opt(year, month, day) ==
    IF year < 0 \/ month < 0 \/ day < 0 THEN Err
    ELSE IF ValidYmd(year, month, day)
    THEN [ok |-> TRUE, days |-> DaysFromCivil(year, month, day)]
    ELSE Err

manual_date_of(parts) ==
    IF Len(parts) # 3 THEN Err
    ELSE from_ymd_opt(ParseInt(parts[1]), ParseInt(parts[2]), ParseInt(parts[3]))

parse_manual_date(date_str) ==
    IF Find(date_str, <<"/">>) > 0 THEN manual_date_of(SplitOn(date_str, "/"))
    ELSE IF Find(date_str, <<"-">>) > 0 THEN manual_date_of(SplitOn(date_str, "-"))
    ELSE Err

\* the first Ok of the attempts, in their order; Err when there is none
FirstOk(attempts) ==
    LET hits == {k \in 1..Len(attempts) : attempts[k].ok}
    IN  IF hits = {} THEN Err
        ELSE attempts[CHOOSE k \in hits : \A l \in hits : k <= l]

parse_simple_date(date_str) ==
    FirstOk(<<NaiveDate_parse_from_str(date_str, FmtSlashDate),
              NaiveDate_parse_from_str(date_str, FmtDashDate),
              NaiveDate_parse_from_str(date_str, FmtSlashDateWin),
              NaiveDate_parse_from_str(date_str, FmtDashDateWin),
              parse_manual_date(date_str)>>)

(***************************************************************************)
(* The timestamp of a header (parse_notes_from_text, the chain of or_else  *)
(* calls).  The result is a timestamp, or a panic: the unwrap of           *)
(* and_local_timezone(Local).single() on a local midnight that does not    *)
(* exist or is ambiguous.  now is the value of Local::now().               *)
(***************************************************************************)
\* date.and_hms_opt(0, 0, 0).unwrap().and_local_timezone(Local).single().unwrap()
local_midnight(days, offs, now) ==
    IF Cardinality(offs) = 1
    THEN [panic |-> FALSE, ts |-> Timestamp(days * 86400 - (CHOOSE o \in offs : TRUE), 0)]
    ELSE [panic |-> TRUE, ts |-> now]

\* the chain, given what each parser returned for the header's text
first_ok(rfc, dtz, dt, date, tz, now) ==
    IF rfc.ok THEN [panic |-> FALSE, ts |-> rfc.ts]
    ELSE IF dtz.ok THEN [panic |-> FALSE, ts |-> dtz.ts]
    ELSE IF dt.ok THEN [panic |-> FALSE, ts |-> dt.ts]
    ELSE IF date.ok
    THEN local_midnight(date.days, LocalResult(tz, date.days * 86400), now)
    ELSE [panic |-> FALSE, ts |-> now]

parse_timestamp(date_str, tz, now) ==
    first_ok(parse_from_rfc3339(date_str),
             DateTime_parse_from_str(date_str, FmtDateTimeZone),
             DateTime_parse_from_str(date_str, FmtDateTime),
             parse_simple_date(date_str), tz, now)

(***************************************************************************)
(* Note and NoteParser::parse_notes_from_text.  The result is Ok(notes),   *)
(* or the panic of a header's timestamp.                                   *)
(***************************************************************************)
Note(id, c, ts) == [id |-> id, content |-> c, timestamp |-> ts]

\* the test that ends the collection of a block's content lines
EndsBlock(content_line) ==
    /\ StartsWith(Trim(content_line), <<HASH>>)
    /\ ~StartsWith(TrimStart(content_line), <<BSL, HASH>>)

\* the index of the first line from i on that ends the block, Len(lines) + 1 if none
RECURSIVE BlockEnd(_, _)
BlockEnd(lines, i) ==
    IF i > Len(lines) \/ EndsBlock(lines[i]) THEN i ELSE BlockEnd(lines, i + 1)

\* the note of a block, appended to the notes parsed so far, unless its
\* content is empty
push_note(acc, id, c, ts) == IF c # <<>> THEN Append(acc, Note(id, c, ts)) ELSE acc

\* the content of a block: its lines joined, unescaped and trimmed
block_content(content_lines) == Trim(unescape_content(Join(content_lines, <<NL>>)))

RECURSIVE parse_lines(_, _, _, _, _)

\* a header of at least two tokens at line i: its block runs up to line end
parse_block(lines, i, acc, tz, now, parts, stamp, end) ==
    IF stamp.panic THEN [panic |-> TRUE, notes |-> acc]
    ELSE parse_lines(lines, end,
                     push_note(acc, SubSeq(parts[1], 2, Len(parts[1])),
                               block_content(SubSeq(lines, i + 1, end - 1)), stamp.ts),
                     tz, now)

\* a line that starts with '#', split into its tokens
parse_header(lines, i, acc, tz, now, parts) ==
    IF Len(parts) >= 2
    THEN parse_block(lines, i, acc, tz, now, parts,
                     parse_timestamp(Join(SubSeq(parts, 2, Len(parts)), <<SP>>), tz, now),
                     BlockEnd(lines, i + 1))
    ELSE parse_lines(lines, i + 1, acc, tz, now)

\* the while loop of parse_notes_from_text from line i on
parse_line(lines, i, acc, tz, now, line) ==
    IF line = <<>> THEN parse_lines(lines, i + 1, acc, tz, now)
    ELSE IF StartsWith(line, <<HASH>>)
    THEN parse_header(lines, i, acc, tz, now, SplitWhitespace(line))
    ELSE parse_lines(lines, i + 1, acc, tz, now)

parse_lines(lines, i, acc, tz, now) ==
    IF i > Len(lines) THEN [panic |-> FALSE, notes |-> acc]
    ELSE parse_line(lines, i, acc, tz, now, Trim(lines[i]))

parse_notes_from_text(text, tz, now) == parse_lines(Lines(text), 1, <<>>, tz, now)

(***************************************************************************)
(* NoteManager::save_notes: the text written to the store file.            *)
(***************************************************************************)
\* slice::sort_by(|a, b| b.timestamp.cmp(&a.timestamp)): stable, newest first
RECURSIVE InsertDesc(_, _)
InsertDesc(sorted, n) ==
    IF sorted = <<>> THEN <<n>>
    ELSE IF TsLess(sorted[1].timestamp, n.timestamp) THEN <<n>> \o sorted
    ELSE <<sorted[1]>> \o InsertDesc(Tail(sorted), n)

\* a save that writes the collection in the order it has in memory
KeepOrder(ns) == ns

RECURSIVE SortNewestFirst(_)
SortNewestFirst(ns) ==
    IF ns = <<>> THEN <<>>
    ELSE InsertDesc(SortNewestFirst(SubSeq(ns, 1, Len(ns) - 1)), ns[Len(ns)])

format_block(index, note, tz) ==
    (IF index > 1 THEN <<NL>> ELSE <<>>)
        \o <<HASH>> \o note.id \o <<SP>> \o to_rfc3339(note.timestamp, tz) \o <<NL>>
        \o escape_content(note.content) \o <<NL>>

RECURSIVE concat_blocks(_, _, _)
concat_blocks(sorted, index, tz) ==
    IF index > Len(sorted) THEN <<>>
    ELSE format_block(index, sorted[index], tz) \o concat_blocks(sorted, index + 1, tz)

save_text(ns, tz) == concat_blocks(SortNewestFirst(ns), 1, tz)

(***************************************************************************)
(* Note::generate_unique_id.  A hash is a u64, held as its 16 hexadecimal  *)
(* digits, most significant first.  DefaultHasher is not computed: the     *)
(* hash of (content, timestamp, counter) is read from an oracle, which     *)
(* gives the hash for counter 0, 1, ... Len(probes) - 1 and the one hash   *)
(* tail for every later counter.                                           *)
(***************************************************************************)
HexChars == <<"0", "1", "2", "3", "4", "5", "6", "7", "8", "9",
              "a", "b", "c", "d", "e", "f">>

\* the number of attempts after which the 4-character scheme is given up
MaxCounter == 65536

\* characters of a generated id, and of the fallback id
IdLen == 4
FallbackLen == 8

\* format!("{:x}", hash): lowercase hexadecimal without leading zeros
format_hex(hash) ==
    LET nz == {i \in 1..Len(hash) : hash[i] # 0}
    IN  IF nz = {} THEN <<"0">>
        ELSE LET first == CHOOSE i \in nz : \A j \in nz : i <= j
             IN  [k \in 1..(Len(hash) - first + 1) |-> HexChars[hash[first + k - 1] + 1]]

\* .chars().take(n).collect()
Take(s, n) == SubSeq(s, 1, IF Len(s) < n THEN Len(s) ELSE n)

\* [String]::contains
Contains(ids, id) == \E i \in 1..Len(ids) : ids[i] = id

Oracle(probes, tail) == [probes |-> probes, tail |-> tail]

\* the hash computed in the iteration that runs with this counter
HashAt(oracle, counter) ==
    IF counter < Len(oracle.probes) THEN oracle.probes[counter + 1] ELSE oracle.tail

\* what generate_unique_id returns, with the value its counter has then
Generated(id, counter) == [id |-> id, counter |-> counter]

\* a loop that gives up one iteration early
RECURSIVE generate_loop_short(_, _, _)
generate_loop_short(oracle, existing_ids, counter) ==
    IF ~Contains(existing_ids, Take(format_hex(HashAt(oracle, counter)), IdLen))
    THEN Generated(Take(format_hex(HashAt(oracle, counter)), IdLen), counter)
    ELSE IF counter + 1 >= MaxCounter
    THEN Generated(Take(format_hex(HashAt(oracle, counter)), FallbackLen), counter + 1)
    ELSE generate_loop_short(oracle, existing_ids,
                             IF counter >= Len(oracle.probes) THEN MaxCounter - 1
                             ELSE counter + 1)

\* The loop of generate_unique_id from the iteration with this counter on.
\* From counter Len(probes) on, every iteration computes the same hash, so
\* when one of them finds its candidate taken they all do: the iterations up
\* to the last one (counter = MaxCounter) are skipped, not unrolled.
RECURSIVE generate_loop(_, _, _)
generate_loop(oracle, existing_ids, counter) ==
    LET hash == HashAt(oracle, counter)
        id   == Take(format_hex(hash), IdLen)
    IN  IF ~Contains(existing_ids, id) THEN Generated(id, counter)
        ELSE IF counter + 1 > MaxCounter
        THEN Generated(Take(format_hex(hash), FallbackLen), counter + 1)
        ELSE generate_loop(oracle, existing_ids,
                           IF counter >= Len(oracle.probes) THEN MaxCounter
                           ELSE counter + 1)

generate_unique_id(oracle, existing_ids) == generate_loop(oracle, existing_ids, 0).id

\* Note::new: the timestamp is Local::now()
Note_new(c, existing_ids, now, oracle) ==
    Note(generate_unique_id(oracle, existing_ids), c, now)

(***************************************************************************)
(* NoteManager.  The store file is absent, or holds a text.  Each          *)
(* operation yields the collection, the file and the value returned.       *)
(***************************************************************************)
NoFile == [exists |-> FALSE, text |-> <<>>]
FileOf(text) == [exists |-> TRUE, text |-> text]

Ids(ns) == [i \in 1..Len(ns) |-> ns[i].id]

Result(op, arg, kind, id, ids, count) ==
    [op |-> op, arg |-> arg, kind |-> kind, id |-> id, ids |-> ids, count |-> count]

NoResult == Result("none", <<>>, "Ok", <<>>, <<>>, 0)

Outcome(ns, f, r) == [notes |-> ns, file |-> f, result |-> r]

\* a load that fails when there is no store file
load_existing(f, tz, now) ==
    IF ~f.exists THEN [panic |-> TRUE, notes |-> <<>>]
    ELSE parse_notes_from_text(f.text, tz, now)

\* NoteManager::load_notes
load_notes(f, tz, now) ==
    IF ~f.exists THEN [panic |-> FALSE, notes |-> <<>>]
    ELSE IF Trim(f.text) = <<>> THEN [panic |-> FALSE, notes |-> <<>>]
    ELSE parse_notes_from_text(f.text, tz, now)

\* NoteManager::save_notes
save_notes(ns, tz) == FileOf(save_text(ns, tz))

\* the collection after an operation, saved, with the value returned
saved(ns, tz, r) == Outcome(ns, save_notes(ns, tz), r)

\* self.notes.push(note); self.save_notes()?; Ok(note_id)
push_and_save(ns, note, tz) ==
    saved(Append(ns, note), tz, Result("add", note.content, "Ok", note.id, <<>>, 0))

\* NoteManager::add_note
add_note(ns, f, c, tz, now, oracle) ==
    push_and_save(ns, Note_new(c, Ids(ns), now, oracle), tz)

\* notes.iter().filter(|note| note.id.starts_with(id))
matching(ns, id) == LET Matches(n) == StartsWith(n.id, id) IN SelectSeq(ns, Matches)

\* self.notes.retain(|note| note.id != note_id)
retain(ns, note_id) == LET Other(n) == n.id # note_id IN SelectSeq(ns, Other)

\* a remove that goes on to the first match when there are several
remove_first_match(ns, f, id, tz) ==
    IF Len(matching(ns, id)) = 0
    THEN Outcome(ns, f, Result("remove", id, "NotFound", <<>>, <<>>, 0))
    ELSE saved(retain(ns, matching(ns, id)[1].id), tz,
               Result("remove", id, "Removed", matching(ns, id)[1].id, <<>>, 0))

\* a remove that does not write the store file
remove_unsaved(ns, f, id, tz) ==
    IF Len(matching(ns, id)) = 0
    THEN Outcome(ns, f, Result("remove", id, "NotFound", <<>>, <<>>, 0))
    ELSE IF Len(matching(ns, id)) = 1
    THEN Outcome(retain(ns, matching(ns, id)[1].id), f,
                 Result("remove", id, "Removed", matching(ns, id)[1].id, <<>>, 0))
    ELSE Outcome(ns, f, Result("remove", id, "Ambiguous", <<>>,
                               Ids(matching(ns, id)), 0))

\* the match on matching_notes.len()
remove_matching(ns, f, id, tz, matching_notes) ==
    IF Len(matching_notes) = 0
    THEN Outcome(ns, f, Result("remove", id, "NotFound", <<>>, <<>>, 0))
    ELSE IF Len(matching_notes) = 1
    THEN saved(retain(ns, matching_notes[1].id), tz,
               Result("remove", id, "Removed", matching_notes[1].id, <<>>, 0))
    ELSE Outcome(ns, f,
                 Result("remove", id, "Ambiguous", <<>>, Ids(matching_notes), 0))

\* NoteManager::remove_note_by_id
remove_note_by_id(ns, f, id, tz) == remove_matching(ns, f, id, tz, matching(ns, id))

\* the id an imported note is pushed with: a new one when its id is among
\* the ids the store had before the import, its own otherwise
import_id(ns, imported_note, existing_ids, now, oracle) ==
    IF Contains(existing_ids, imported_note.id)
    THEN Note_new(imported_note.content, Ids(ns) \o <<imported_note.id>>,
                  now, oracle).id
    ELSE imported_note.id

\* the loop of import_from_file over the parsed notes, from the k-th on; the
\* Note::new calls of one import read their hashes from the same oracle
RECURSIVE import_loop(_, _, _, _, _, _)
import_loop(ns, imported_notes, k, existing_ids, now, oracle) ==
    IF k > Len(imported_notes) THEN ns
    ELSE import_loop(Append(ns, Note(import_id(ns, imported_notes[k], existing_ids,
                                               now, oracle),
                                     imported_notes[k].content,
                                     imported_notes[k].timestamp)),
                     imported_notes, k + 1, existing_ids, now, oracle)

\* import_from_file once the file is parsed: imported_count is the number
\* of iterations of the loop
import_parsed(ns, f, text, tz, now, oracle, p) ==
    IF p.panic
    THEN Outcome(ns, f, Result("import", text, "Panic", <<>>, <<>>, 0))
    ELSE IF p.notes = <<>>
    THEN Outcome(ns, f, Result("import", text, "Ok", <<>>, <<>>, 0))
    ELSE saved(import_loop(ns, p.notes, 1, Ids(ns), now, oracle), tz,
               Result("import", text, "Ok", <<>>, <<>>, Len(p.notes)))

\* NoteManager::import_from_file; text is what the import file holds
import_from_file(ns, f, text, tz, now, oracle) ==
    IF Trim(text) = <<>>
    THEN Outcome(ns, f, Result("import", text, "Ok", <<>>, <<>>, 0))
    ELSE import_parsed(ns, f, text, tz, now, oracle,
                       parse_notes_from_text(text, tz, now))

\* NoteManager::new on a store file: the value returned and the collection
construct(ns, f, l) ==
    IF l.panic THEN Outcome(ns, f, Result("load", <<>>, "Panic", <<>>, <<>>, 0))
    ELSE Outcome(l.notes, f, Result("load", <<>>, "Ok", <<>>, <<>>, 0))

NoteManager_new(ns, f, tz, now) == construct(ns, f, load_notes(f, tz, now))

(***************************************************************************)
(* Values the specifications draw their inputs from.                       *)
(***************************************************************************)
Id_a1 == <<"a", "1">>
Id_a1b2 == <<"a", "1", "b", "2">>
Id_a1c3 == <<"a", "1", "c", "3">>
Id_c3d4 == <<"c", "3", "d", "4">>
Id_abc == <<"a", "b", "c">>
Id_a1b2c3d4 == <<"a", "1", "b", "2", "c", "3", "d", "4">>
Id_x9 == <<"x", "9">>
Id_b2 == <<"b", "2">>

\* 2024-01-15T10:30:00.000000120+08:00 and 2024-07-03T09:46:40Z
NowValues == {Timestamp(NaiveSecs(2024, 1, 15, 2, 30, 0), 120),
              Timestamp(NaiveSecs(2024, 7, 3, 9, 46, 40), 0)}

\* 0xa1b2c3d400000001, 0xc3d4e5f600000000 and 0x0000000000000abc
Hash_a1b2 == <<10, 1, 11, 2, 12, 3, 13, 4, 0, 0, 0, 0, 0, 0, 0, 1>>
Hash_c3d4 == <<12, 3, 13, 4, 14, 5, 15, 6, 0, 0, 0, 0, 0, 0, 0, 0>>
Hash_abc == <<0, 0, 0, 0, 0, 0, 0, 0, 0, 0, 0, 0, 0, 10, 11, 12>>
HashValues == {Hash_a1b2, Hash_c3d4, Hash_abc}

Oracles ==
    {Oracle(p, t) : p \in UNION {[1..k -> HashValues] : k \in 0..MaxProbes},
                    t \in HashValues}

idleEnv == local_tz = "Fixed" /\ clock = Timestamp(0, 0)
idleEscape == content = <<>> /\ escaped = <<>> /\ unescaped = <<>>
idleParse ==
    /\ header_date = <<>> /\ body = <<>> /\ rest = <<>>
    /\ coll = <<>> /\ probe_text = <<>>
    /\ parsed = [panic |-> FALSE, notes |-> <<>>]
idleGen ==
    /\ gen_existing = <<>> /\ gen_oracle = Oracle(<<>>, Hash_abc)
    /\ new_id = <<>> /\ gen_counter = 0
idleStore ==
    /\ notes = <<>> /\ file = NoFile /\ result = NoResult /\ steps = 0
    /\ procs = <<>>

(***************************************************************************)
(* SpecEscape: the escape probe.  The argument is any string over the      *)
(* characters that matter to escaping; escape_content is applied, then     *)
(* unescape_content to its result.                                         *)
(***************************************************************************)
EscapeAlphabet == {HASH, BSL, SP, NL, "a"}

InitEscape ==
    /\ pc = "escape"
    /\ idleEnv
    /\ content \in StringsUpTo(EscapeAlphabet, MaxLen)
    /\ escaped = <<>>
    /\ unescaped = <<>>
    /\ idleParse /\ idleGen /\ idleStore

Escape ==
    /\ pc = "escape"
    /\ escaped' = escape_content(content)
    /\ pc' = "unescape"
    /\ UNCHANGED <<local_tz, clock, content, unescaped, parseVars, genVars, storeVars>>

Unescape ==
    /\ pc = "unescape"
    /\ unescaped' = unescape_content(escaped)
    /\ pc' = "done"
    /\ UNCHANGED <<local_tz, clock, content, escaped, parseVars, genVars, storeVars>>

NextEscape == Escape \/ Unescape

SpecEscape == InitEscape /\ [][NextEscape]_vars

\* the content is what its lines joined by "\n" give: it does not end in a
\* line terminator that str::lines would drop
LineJoined(c) == Join(Lines(c), <<NL>>) = c

\* C2: for every content string x, with lines that start with '#', '\#',
\* '##', several backslashes before '#', or indentation before any of these,
\* unescape_content(escape_content(x)) = x.  (Stated for the strings that do
\* not end in a line terminator.)
C2_EscapeRoundTrip ==
    (pc = "done" /\ LineJoined(content)) => unescaped = content

(***************************************************************************)
(* SpecParse: the parse probe.  The text is a header "#x9 <date>" (or the  *)
(* one-token header "#x9"), the lines of its body, and the text of the     *)
(* blocks after it; parse_notes_from_text is applied to it.                *)
(***************************************************************************)
Date_rfc3339 == <<"2", "0", "2", "4", "-", "0", "1", "-", "1", "5", "T", "1", "0", ":", "3", "0", ":", "0", "0", "+", "0", "8", ":", "0", "0">>
Date_rfc3339_frac == <<"2", "0", "2", "4", "-", "0", "1", "-", "1", "5", "T", "1", "0", ":", "3", "0", ":", "0", "0", ".", "5", "Z">>
Date_time_zone == <<"2", "0", "2", "4", "-", "0", "1", "-", "1", "5", " ", "1", "0", ":", "3", "0", ":", "0", "0", " ", "+", "0", "8", "0", "0">>
Date_time == <<"2", "0", "2", "4", "-", "0", "1", "-", "1", "5", " ", "1", "0", ":", "3", "0", ":", "0", "0">>
Date_time_dst == <<"2", "0", "2", "4", "-", "0", "7", "-", "0", "3", " ", "2", "3", ":", "5", "9", ":", "5", "9">>
Date_slash == <<"2", "0", "2", "4", "/", "3", "/", "5">>
Date_slash_padded == <<"2", "0", "2", "4", "/", "0", "3", "/", "0", "5">>
Date_dash == <<"2", "0", "2", "4", "-", "3", "-", "5">>
Date_dash_padded == <<"2", "0", "2", "4", "-", "0", "3", "-", "0", "5">>
Date_gap == <<"2", "0", "2", "4", "/", "3", "/", "1", "0">>
Date_fold == <<"2", "0", "2", "4", "-", "1", "1", "-", "0", "3">>
Date_invalid == <<"2", "0", "2", "4", "/", "2", "/", "3", "0">>
Date_words == <<"s", "o", "m", "e", " ", "d", "a", "y">>

\* <<>> stands for the header without a timestamp
HeaderDates ==
    {<<>>, Date_rfc3339, Date_rfc3339_frac, Date_time_zone, Date_time,
     Date_time_dst, Date_slash, Date_slash_padded, Date_dash, Date_dash_padded,
     Date_gap, Date_fold, Date_invalid, Date_words}

Bodies == {<<"f", "i", "r", "s", "t">>, <<>>, <<"f", "i", "r", "s", "t", "\n", "\n", " ", " ", "\\", "#", "t", "a", "g", "\n">>, <<" ", "\n">>}

NextBlock == <<"#", "b", "2", " ", "2", "0", "2", "4", "-", "0", "1", "-", "1", "5", "T", "1", "0", ":", "3", "0", ":", "0", "0", "+", "0", "8", ":", "0", "0", "\n", "s", "e", "c", "o", "n", "d", "\n">>

Rests == {<<>>, NextBlock, <<NL>> \o NextBlock}

ProbeText(d, b, r) ==
    <<HASH>> \o Id_x9 \o (IF d = <<>> THEN <<>> ELSE <<SP>> \o d) \o <<NL>>
        \o b \o <<NL>> \o r

InitParse ==
    /\ pc = "parse"
    /\ local_tz \in TimeZones
    /\ clock \in NowValues
    /\ header_date \in HeaderDates
    /\ body \in Bodies
    /\ rest \in Rests
    /\ coll = <<>>
    /\ probe_text = ProbeText(header_date, body, rest)
    /\ parsed = [panic |-> FALSE, notes |-> <<>>]
    /\ idleEscape /\ idleGen /\ idleStore

ParseNotes ==
    /\ pc = "parse"
    /\ parsed' = parse_notes_from_text(probe_text, local_tz, clock)
    /\ pc' = "done"
    /\ UNCHANGED <<local_tz, clock, header_date, body, rest, coll, probe_text,
                   escapeVars, genVars, storeVars>>

NextParse == ParseNotes

SpecParse == InitParse /\ [][NextParse]_vars

\* the notes of the parse with this id
ParsedWithId(id) == SelectSeq(parsed.notes, LAMBDA n : n.id = id)

\* the header's timestamp text has the form YYYY-MM-DD HH:MM:SS, a valid
\* date and a valid time of day, and nothing else
IsDateTimeNoZone(d) ==
    LET f == ParseFields(d, FmtDateTime) IN FieldsHaveDate(f) /\ FieldsHaveTime(f)

\* the instants at which the local clock shows the naive date and time of d
LocalInstants(d) ==
    LET f == ParseFields(d, FmtDateTime)
        naive == NaiveSecs(f.Y, f.m, f.d, f.H, f.M, f.S)
    IN  {Timestamp(naive - o, 0) : o \in LocalResult(local_tz, naive)}

\* C8: a block whose header carries a date and time without a timezone,
\* YYYY-MM-DD HH:MM:SS, parses to a note with the header's id whose timestamp
\* is that date and time of day in the local time zone; the current time is
\* not substituted.
C8_DateTimeWithoutZone ==
    (pc = "done" /\ IsDateTimeNoZone(header_date) /\ Trim(body) # <<>>) =>
        /\ ~parsed.panic
        /\ Len(ParsedWithId(Id_x9)) = 1
        /\ ParsedWithId(Id_x9)[1].timestamp \in LocalInstants(header_date)

\* the header's timestamp text is a bare date YYYY/MM/DD or YYYY-MM-DD, month
\* and day zero-padded or not, that is a date of the calendar
BareDateDays(d) ==
    LET slash == ParseFields(d, FmtSlashDate)
        dash  == ParseFields(d, FmtDashDate)
    IN  IF FieldsHaveDate(slash) THEN {DaysFromCivil(slash.Y, slash.m, slash.d)}
        ELSE IF FieldsHaveDate(dash) THEN {DaysFromCivil(dash.Y, dash.m, dash.d)}
        ELSE {}

\* C9: a block whose header timestamp is a bare date written YYYY/MM/DD or
\* YYYY-MM-DD, month and day zero-padded or not, parses to a note timestamped
\* at 00:00:00 local time on that date.  (Stated for the dates on which the
\* local clock shows 00:00:00 at some instant.)
C9_BareDateIsLocalMidnight ==
    (/\ pc = "done" /\ Trim(body) # <<>>
     /\ \E days \in BareDateDays(header_date) :
            LocalResult(local_tz, days * 86400) # {}) =>
        /\ ~parsed.panic
        /\ Len(ParsedWithId(Id_x9)) = 1
        /\ \E days \in BareDateDays(header_date) :
               \E o \in ZoneOffsets(local_tz) :
                   /\ ParsedWithId(Id_x9)[1].timestamp = Timestamp(days * 86400 - o, 0)
                   /\ OffsetAtUtc(local_tz, days * 86400 - o) = o

\* C10: parse_notes_from_text never fails: whatever the first header (fewer
\* than two tokens, a date in no supported format, a bare date whose local
\* midnight does not exist or is ambiguous), it returns a list of notes
\* without aborting, and the well-formed block after it is parsed.
C10_ParseNeverFails ==
    pc = "done" =>
        /\ ~parsed.panic
        /\ (rest # <<>> => Len(ParsedWithId(Id_b2)) = 1)

(***************************************************************************)
(* SpecRoundTrip: the round-trip probe.  save_notes serializes a           *)
(* collection and parse_notes_from_text is applied to the text it wrote.   *)
(***************************************************************************)
RoundTripIds == {Id_a1b2, Id_c3d4}

\* the two clock readings, and 2024-03-05T12:00:00.5Z
RoundTripStamps == NowValues \cup {Timestamp(NaiveSecs(2024, 3, 5, 12, 0, 0), 500000000)}

SampleContents == {<<"a">>, <<"#", "a">>, <<"\\", "#", "a">>, <<"a", "\n", "\n", " ", " ", "#", "#">>}

NotesOver(contents) ==
    {Note(id, c, ts) : id \in RoundTripIds, c \in contents, ts \in RoundTripStamps}

Collections ==
    {<<n>> : n \in NotesOver(StringsUpTo(EscapeAlphabet, MaxContentLen))}
        \cup {<<n1, n2>> : n1 \in NotesOver(SampleContents),
                           n2 \in NotesOver(SampleContents)}

InitRoundTrip ==
    /\ pc = "save"
    /\ local_tz \in TimeZones
    /\ clock = Timestamp(0, 0)
    /\ coll \in Collections
    /\ header_date = <<>> /\ body = <<>> /\ rest = <<>>
    /\ probe_text = <<>>
    /\ parsed = [panic |-> FALSE, notes |-> <<>>]
    /\ idleEscape /\ idleGen /\ idleStore

SaveNotes ==
    /\ pc = "save"
    /\ probe_text' = save_text(coll, local_tz)
    /\ pc' = "parse"
    /\ UNCHANGED <<local_tz, clock, header_date, body, rest, coll, parsed,
                   escapeVars, genVars, storeVars>>

NextRoundTrip == SaveNotes \/ ParseNotes

SpecRoundTrip == InitRoundTrip /\ [][NextRoundTrip]_vars

\* (id, content, whole seconds of the timestamp) of every note
Triples(ns) ==
    {<<ns[i].id, ns[i].content, ns[i].timestamp.secs>> : i \in 1..Len(ns)}

\* the content is what a parse can give back: not empty, no whitespace
\* around it, no line terminator at its end
CleanContent(c) == c # <<>> /\ Trim(c) = c /\ LineJoined(c)

\* C1: for every collection N of notes, parsing the text that save_notes
\* produces for N yields exactly N's set of (id, content) pairs, every
\* timestamp equal to the original to at least second precision.  (Stated
\* for the collections whose contents are not empty, have no whitespace
\* around them and do not end in a line terminator.)
C1_SaveParseRoundTrip ==
    (pc = "done" /\ \A i \in 1..Len(coll) : CleanContent(coll[i].content)) =>
        /\ ~parsed.panic
        /\ Triples(parsed.notes) = Triples(coll)

(***************************************************************************)
(* SpecGen: the generator probe.  generate_unique_id is applied to a list  *)
(* of existing ids and the hashes of an oracle (which stand for the        *)
(* content and the timestamp that are hashed).                             *)
(***************************************************************************)
GenIds == {Id_a1b2, Id_c3d4, Id_abc, Id_a1b2c3d4}

\* the lists of at most n different ids
IdLists(n) ==
    {l \in UNION {[1..k -> GenIds] : k \in 0..n} :
        \A i, j \in 1..Len(l) : i # j => l[i] # l[j]}

InitGen ==
    /\ pc = "generate"
    /\ idleEnv
    /\ gen_existing \in IdLists(MaxExisting)
    /\ gen_oracle \in Oracles
    /\ new_id = <<>>
    /\ gen_counter = 0
    /\ idleEscape /\ idleParse /\ idleStore

\* the id returned, and the counter as the return leaves it
returned(g) == new_id' = g.id /\ gen_counter' = g.counter

Generate ==
    /\ pc = "generate"
    /\ returned(generate_loop(gen_oracle, gen_existing, 0))
    /\ pc' = "done"
    /\ UNCHANGED <<local_tz, clock, gen_existing, gen_oracle,
                   escapeVars, parseVars, storeVars>>

NextGen == Generate

SpecGen == InitGen /\ [][NextGen]_vars

IsLowerHex(c) == \E i \in 1..Len(HexChars) : HexChars[i] = c

\* C4: for every content, every timestamp and every existing_ids with fewer
\* than 65536 elements, generate_unique_id returns a string of exactly 4
\* lowercase hexadecimal characters that is not an element of existing_ids.
C4_FourHexNotExisting ==
    (pc = "done" /\ Len(gen_existing) < 65536) =>
        /\ Len(new_id) = 4
        /\ \A i \in 1..Len(new_id) : IsLowerHex(new_id[i])
        /\ ~Contains(gen_existing, new_id)

(***************************************************************************)
(* Spec: the store.  A NoteManager is constructed on a store file, and     *)
(* add_note, remove_note_by_id, import_from_file and a new construction    *)
(* on the same file (Restart) run in any order, MaxOps times in all.       *)
(***************************************************************************)
Stamp_a == <<"2", "0", "2", "4", "-", "0", "1", "-", "1", "5", "T", "1", "0", ":", "3", "0", ":", "0", "0", "+", "0", "8", ":", "0", "0">>
Stamp_b == <<"2", "0", "2", "4", "-", "0", "3", "-", "0", "5", "T", "1", "2", ":", "0", "0", ":", "0", "0", "Z">>

Block(id, stamp, c) == <<HASH>> \o id \o <<SP>> \o stamp \o <<NL>> \o c \o <<NL>>

\* the store files a manager is constructed on: none, an empty one, one
\* of blank lines, one
\* written by save_notes, one written by hand (oldest note first, other
\* timestamp formats, an escaped line), and one whose ids are prefixes of
\* one another
StoreFiles ==
    {NoFile,
     FileOf(<<>>),
     FileOf(<<SP, NL, NL>>),
     FileOf(Block(Id_a1b2, Stamp_a, <<"f", "i", "r", "s", "t">>)),
     FileOf(Block(Id_a1b2, Date_time_zone, <<"f", "i", "r", "s", "t">>) \o <<NL>>
                \o Block(Id_a1c3, Stamp_b, <<"\\", "#", "t", "a", "g">>)),
     FileOf(Block(Id_a1, Date_slash, <<"s", "h", "o", "r", "t">>) \o <<NL>>
                \o Block(Id_a1b2c3d4, Stamp_b, <<"l", "o", "n", "g">>) \o <<NL>>
                \o Block(Id_a1b2, Stamp_a, <<"f", "i", "r", "s", "t">>))}

\* the hashes of the Note::new calls of an operation: one hash for every
\* counter, or 0xa1b2c3d400000001 for counter 0 and 0xc3d4e5f600000000 after
StoreOracles ==
    {Oracle(<<>>, h) : h \in HashValues} \cup {Oracle(<<Hash_a1b2>>, Hash_c3d4)}

\* the texts added: a word, the empty text, a word between spaces
AddContents == {<<"n", "e", "w">>, <<>>, <<SP, "x", SP>>}

RemovePrefixes == {<<>>, Id_a1, Id_a1b2, Id_c3d4, <<"z", "z">>}

\* the import files: an empty one, one whose id is in the stores above, one
\* with the same new id twice, one whose date has no local midnight in the
\* zone with daylight saving, one without any well-formed block
ImportTexts ==
    {<<>>,
     Block(Id_a1b2, Stamp_b, <<"i", "m", "p", "o", "r", "t", "e", "d">>),
     Block(Id_c3d4, Date_slash, <<"o", "n", "e">>) \o <<NL>> \o Block(Id_c3d4, Stamp_b, <<"t", "w", "o">>),
     Block(Id_x9, Date_gap, <<"g", "a", "p">>),
     <<"#", "s", "o", "l", "o", "\n", "j", "u", "n", "k", "\n">>}

\* the state after the construction of the manager
constructed(out) ==
    /\ notes = out.notes
    /\ result = out.result

Init ==
    /\ pc = "store"
    /\ local_tz \in TimeZones
    /\ clock = Timestamp(0, 0)
    /\ file \in StoreFiles
    /\ constructed(NoteManager_new(<<>>, file, local_tz, clock))
    /\ steps = 0
    /\ procs = <<>>
    /\ idleEscape /\ idleParse /\ idleGen

Apply(out) ==
    /\ notes' = out.notes
    /\ file' = out.file
    /\ result' = out.result
    /\ steps' = steps + 1
    /\ UNCHANGED <<pc, local_tz, clock, procs, escapeVars, parseVars, genVars>>

\* a panic ends the process: only a new construction follows it
Running == steps < MaxOps /\ result.kind # "Panic"

AddNote ==
    /\ Running
    /\ \E c \in AddContents, now \in NowValues, o \in StoreOracles :
           Apply(add_note(notes, file, c, local_tz, now, o))

RemoveNote ==
    /\ Running
    /\ \E id \in RemovePrefixes : Apply(remove_note_by_id(notes, file, id, local_tz))

ImportFile ==
    /\ Running
    /\ \E t \in ImportTexts, now \in NowValues, o \in StoreOracles :
           Apply(import_from_file(notes, file, t, local_tz, now, o))

\* NoteManager::new on the store file as it is now
Restart ==
    /\ steps < MaxOps
    /\ \E now \in NowValues : Apply(NoteManager_new(notes, file, local_tz, now))

Next == AddNote \/ RemoveNote \/ ImportFile \/ Restart

Spec == Init /\ [][Next]_vars

Distinct(ids) == \A i, j \in 1..Len(ids) : i # j => ids[i] # ids[j]

\* C3: from a store whose note ids are pairwise distinct, every add_note,
\* remove_note_by_id and import_from_file leaves a store whose note ids are
\* pairwise distinct, an import of several notes in one file included.
C3_IdsStayDistinct ==
    [][(pc = "store" /\ Distinct(Ids(notes))) => Distinct(Ids(notes'))]_vars

\* the step is a call of this operation
Called(op) == pc = "store" /\ steps' = steps + 1 /\ result'.op = op

\* C5: remove_note_by_id with a prefix that no stored id starts with returns
\* NotFound; with a prefix that the ids of two or more notes start with it
\* returns Ambiguous with the ids of all these notes; either way the
\* collection and the store file are what they were.
C5_RemoveLeavesStore ==
    [][Called("remove") =>
          /\ Len(matching(notes, result'.arg)) = 0 =>
                 /\ result'.kind = "NotFound"
                 /\ notes' = notes /\ file' = file
          /\ Len(matching(notes, result'.arg)) >= 2 =>
                 /\ result'.kind = "Ambiguous"
                 /\ result'.ids = Ids(matching(notes, result'.arg))
                 /\ notes' = notes /\ file' = file]_vars

\* a remove has just reported three ids that start with a two-character
\* prefix, in a store file that exists
C5_Witness ==
    /\ pc = "store" /\ result.op = "remove" /\ result.kind = "Ambiguous"
    /\ Len(result.arg) = 2 /\ Len(result.ids) = 3 /\ Len(notes) = 3 /\ file.exists

\* ns without its k-th note
Without(ns, k) == SubSeq(ns, 1, k - 1) \o SubSeq(ns, k + 1, Len(ns))

\* C6: remove_note_by_id with a prefix that the id of exactly one note
\* starts with returns Removed with that id; the collection afterwards is
\* the one before without that note, the others as they were and in their
\* order; the store file holds the text save_notes writes for it.
C6_RemoveExactlyOne ==
    [][(Called("remove") /\ Len(matching(notes, result'.arg)) = 1) =>
          /\ result'.kind = "Removed"
          /\ result'.id = matching(notes, result'.arg)[1].id
          /\ \E k \in 1..Len(notes) :
                 /\ notes[k].id = result'.id
                 /\ notes' = Without(notes, k)
          /\ file'.exists
          /\ file'.text = save_text(notes', local_tz)]_vars

\* a remove by a proper prefix has just removed one note of a store that
\* keeps another
C6_Witness ==
    /\ pc = "store" /\ result.op = "remove" /\ result.kind = "Removed"
    /\ Len(result.arg) < Len(result.id) /\ Len(notes) >= 1
    /\ \A i \in 1..Len(notes) : notes[i].id # result.id

\* the notes an import appended
Appended == SubSeq(notes', Len(notes) + 1, Len(notes'))

\* the ids in the store when the k-th note of an import is appended
IdsBefore(k) == Ids(SubSeq(notes', 1, Len(notes) + k - 1))

\* the notes an import appended are the parsed ones: their contents and
\* timestamps, and an id no note in the store has for each parsed id that a
\* note in the store has
AppendedFrom(imported_notes) ==
    /\ Len(Appended) = Len(imported_notes)
    /\ \A k \in 1..Len(Appended) :
           /\ Appended[k].content = imported_notes[k].content
           /\ Appended[k].timestamp = imported_notes[k].timestamp
           /\ Contains(IdsBefore(k), imported_notes[k].id) =>
                  ~Contains(IdsBefore(k), Appended[k].id)

\* C7: a note that import_from_file parsed with the id of a note in the
\* store is appended with an id that no note in the store has, with the
\* content and the timestamp parsed; every parsed note is appended once, and
\* the count returned is the number of notes appended.
C7_ImportRegeneratesId ==
    [][(Called("import") /\ result'.kind = "Ok" /\ result'.count > 0) =>
          /\ Len(notes') = Len(notes) + result'.count
          /\ SubSeq(notes', 1, Len(notes)) = notes
          /\ \E now \in NowValues :
                 AppendedFrom(parse_notes_from_text(result'.arg, local_tz, now).notes)]_vars

\* the timestamps of ns never increase along it
NewestFirst(ns) ==
    \A i \in 1..(Len(ns) - 1) : ~TsLess(ns[i].timestamp, ns[i + 1].timestamp)

\* (id, timestamp) of every note
Stamped(ns) == {<<ns[i].id, ns[i].timestamp>> : i \in 1..Len(ns)}

\* C11: whatever the order of the collection, the notes parsed from the text
\* save_notes wrote for it are in non-increasing timestamp order (the blocks
\* are written newest first and parsed in the order of the text), and they
\* are the notes of the collection whose content is not blank.
C11_SavedNewestFirst ==
    (pc = "done" /\ coll # <<>>) =>
        /\ ~parsed.panic
        /\ NewestFirst(parsed.notes)
        /\ Stamped(parsed.notes) =
               Stamped(SelectSeq(coll, LAMBDA n : Trim(n.content) # <<>>))

\* a collection of two notes held oldest first has been saved and parsed, and
\* the parse has the newer one first
C11_Witness ==
    /\ pc = "done" /\ Len(coll) = 2 /\ Len(parsed.notes) = 2
    /\ TsLess(coll[1].timestamp, coll[2].timestamp)
    /\ coll[1].id # coll[2].id
    /\ parsed.notes[1].id = coll[2].id
    /\ parsed.notes[2].id = coll[1].id

\* the store file is missing, empty, or holds only whitespace
Blank(f) == ~f.exists \/ Trim(f.text) = <<>>

\* C12: loading a store file that does not exist, is empty, or contains only
\* whitespace yields an empty collection and reports no error.
C12_BlankFileLoadsEmpty ==
    (pc = "store" /\ result.op = "load" /\ Blank(file)) =>
        /\ result.kind = "Ok"
        /\ notes = <<>>

\* a manager has been constructed on a store file of blank lines
C12_Witness ==
    /\ pc = "store" /\ result.op = "load" /\ result.kind = "Ok"
    /\ file.exists /\ file.text # <<>> /\ Trim(file.text) = <<>>
    /\ notes = <<>>

\* the candidate of the iteration that runs with counter k
Candidate(k) == Take(format_hex(HashAt(gen_oracle, k)), IdLen)

\* the counters, up to the one from which the hashes repeat, whose
\* candidate is not in existing_ids
FreeCounters ==
    {k \in 0..Len(gen_oracle.probes) : ~Contains(gen_existing, Candidate(k))}

\* C13: generate_unique_id terminates.  It returns the candidate of the
\* first counter 0, 1, 2, ... whose candidate is not in existing_ids; when
\* the candidates of the counters 0 to 65536 are all in existing_ids, 65537
\* of them, it returns the first 8 hexadecimal characters of the hash
\* computed last, whether or not they are in existing_ids.
C13_FirstFreeOrFallback ==
    pc = "done" =>
        IF FreeCounters # {}
        THEN \E k \in FreeCounters :
                 /\ \A j \in FreeCounters : k <= j
                 /\ new_id = Candidate(k)
                 /\ gen_counter = k
        ELSE /\ new_id = Take(format_hex(HashAt(gen_oracle, 65536)), 8)
             /\ gen_counter = 65537

\* every candidate was taken and the 8 characters returned are an existing id
C13_Witness ==
    /\ pc = "done" /\ gen_counter = 65537
    /\ Len(new_id) = 8 /\ Contains(gen_existing, new_id)

\* C14: parse_notes_from_text returns no note whose content is empty or
\* only whitespace: a header with a timestamp, followed only by blank lines
\* up to the next header or the end of the text, gives no note, and the
\* header that ends such a block is parsed as the start of its own block.
C14_NoBlankContent ==
    pc = "done" =>
        /\ \A i \in 1..Len(parsed.notes) : Trim(parsed.notes[i].content) # <<>>
        /\ (header_date # <<>> /\ Trim(body) = <<>>) =>
               /\ ParsedWithId(Id_x9) = <<>>
               /\ rest # <<>> => (~parsed.panic /\ Len(ParsedWithId(Id_b2)) = 1)

\* the same without the bare dates that have not exactly one local midnight
C14_UnlessMidnightMissing ==
    (pc = "done" /\ ~parsed.panic) =>
        /\ \A i \in 1..Len(parsed.notes) : Trim(parsed.notes[i].content) # <<>>
        /\ (header_date # <<>> /\ Trim(body) = <<>>) =>
               /\ ParsedWithId(Id_x9) = <<>>
               /\ rest # <<>> => Len(ParsedWithId(Id_b2)) = 1

(***************************************************************************)
(* SpecRace: two processes run "note <text>" on one store file.  Each      *)
(* constructs a NoteManager, which reads the whole file, and then calls    *)
(* add_note, which writes the whole file; nothing orders the steps of one  *)
(* process against those of the other.  A read and a write of the file     *)
(* are each one step.                                                      *)
(***************************************************************************)
Procs == {1, 2}

RaceFiles == {NoFile, FileOf(Block(Id_a1b2, Stamp_a, <<"f", "i", "r", "s", "t">>))}

RaceContents == {<<"n", "e", "w">>, <<"\\", "#">>, <<>>}

RaceOracles == {Oracle(<<>>, Hash_c3d4), Oracle(<<Hash_a1b2>>, Hash_abc)}

\* a process that has not started: the text it adds, its clock and hashes
Proc(c, now, oracle) ==
    [at |-> "start", notes |-> <<>>, content |-> c, now |-> now,
     oracle |-> oracle, id |-> <<>>, after |-> {}]

InitRace ==
    /\ pc = "race"
    /\ local_tz \in TimeZones
    /\ clock = Timestamp(0, 0)
    /\ file \in RaceFiles
    /\ procs \in [Procs -> {Proc(c, now, o) : c \in RaceContents, now \in NowValues,
                                             o \in RaceOracles}]
    /\ notes = <<>> /\ result = NoResult /\ steps = 0
    /\ idleEscape /\ idleParse /\ idleGen

\* the processes that have finished
Finished == {q \in Procs : procs[q].at = "done"}

\* the process after NoteManager::new; after is the set of processes that
\* had finished when it read the file
loaded(pr, l, after) ==
    IF l.panic THEN [pr EXCEPT !.at = "failed"]
    ELSE [pr EXCEPT !.at = "loaded", !.notes = l.notes, !.after = after]

\* run: let mut note_manager = NoteManager::new()?
ProcLoad(p) ==
    /\ pc = "race"
    /\ procs[p].at = "start"
    /\ procs' = [procs EXCEPT ![p] = loaded(procs[p],
                                            load_notes(file, local_tz, procs[p].now),
                                            Finished)]
    /\ UNCHANGED <<pc, local_tz, clock, notes, file, result, steps,
                   escapeVars, parseVars, genVars>>

\* the file and the process after add_note
added(p, out) ==
    /\ file' = out.file
    /\ procs' = [procs EXCEPT ![p] = [procs[p] EXCEPT !.at = "done",
                                                      !.notes = out.notes,
                                                      !.id = out.result.id]]

\* run: handle_add_command(&mut note_manager, cli.text)
ProcAdd(p) ==
    /\ pc = "race"
    /\ procs[p].at = "loaded"
    /\ added(p, add_note(procs[p].notes, file, procs[p].content, local_tz,
                         procs[p].now, procs[p].oracle))
    /\ UNCHANGED <<pc, local_tz, clock, notes, result, steps,
                   escapeVars, parseVars, genVars>>

RaceLoad == \E p \in Procs : ProcLoad(p)

RaceAdd == \E p \in Procs : ProcAdd(p)

NextRace == RaceLoad \/ RaceAdd

SpecRace == InitRace /\ [][NextRace]_vars

\* the store file holds the note that process p added
FileHolds(p) ==
    \E i \in 1..Len(load_notes(file, local_tz, clock).notes) :
        /\ load_notes(file, local_tz, clock).notes[i].id = procs[p].id
        /\ load_notes(file, local_tz, clock).notes[i].timestamp = procs[p].now

\* both adds have returned
BothAdded == pc = "race" /\ \A p \in Procs : procs[p].at = "done"

\* one process read the store file after the other had finished
OneAfterTheOther == \E p \in Procs : procs[p].after # {}

\* C15: two processes each run add on the same store file, each a load of
\* the whole file and later a rewrite of it, without a lock.  When the two
\* adds run one after the other, the final file contains both added notes.
\* (An interleaving in which both adds return an id and the final file
\* contains only one of the two notes is reachable: C15_LostUpdate.)
C15_SequentialKeepsBoth ==
    (BothAdded /\ OneAfterTheOther) => \A p \in Procs : FileHolds(p)

\* both adds returned an id, each process having read the file before the
\* other wrote it, and the file holds the note of one of them only
C15_LostUpdate ==
    /\ BothAdded /\ ~OneAfterTheOther
    /\ \A p \in Procs : procs[p].id # <<>> /\ Trim(procs[p].content) # <<>>
    /\ procs[1].now # procs[2].now
    /\ \E p \in Procs : FileHolds(p)
    /\ \E p \in Procs : ~FileHolds(p)

\* the same for adds of text that is not blank
C15_UnlessBlank ==
    (/\ BothAdded /\ OneAfterTheOther
     /\ \A p \in Procs : Trim(procs[p].content) # <<>>) =>
        \A p \in Procs : FileHolds(p)

\* C16: in every store reached by a load and by add_note, import_from_file
\* and remove_note_by_id, a note is removed by passing its complete id:
\* remove_note_by_id(n.id) returns Removed(n.id) for a stored note n, also
\* when another stored id has n.id as a proper prefix.
C16_RemoveByCompleteId ==
    [][(Called("remove") /\ Contains(Ids(notes), result'.arg)) =>
          /\ result'.kind = "Removed"
          /\ result'.id = result'.arg
          /\ ~Contains(Ids(notes'), result'.arg)]_vars

\* C17: a note created by add_note survives a reload: whatever the content
\* (empty, only whitespace, with whitespace around it), after add_note has
\* returned an id, loading the store file it wrote yields a note with that
\* id.
C17_AddedNoteSurvivesReload ==
    (pc = "store" /\ result.op = "add") =>
        /\ ~load_notes(file, local_tz, clock).panic
        /\ Contains(Ids(load_notes(file, local_tz, clock).notes), result.id)

(***************************************************************************)
(* SpecRewrite: the rewrite probe.  A store text is parsed, as load_notes  *)
(* does; the notes are saved, as every add, remove and import does; the    *)
(* text written is parsed again, as the next load does.                    *)
(***************************************************************************)
\* 2024/1/5, a date before the one of the block that follows
Date_early == <<"2", "0", "2", "4", "/", "1", "/", "5">>

RewriteDates == {Date_rfc3339, Date_slash, Date_words, Date_early}

\* the bodies of the parse probe, and the line \\#x
RewriteBodies == Bodies \cup {<<"\\", "\\", "#", "x">>}

InitRewrite ==
    /\ pc = "parse"
    /\ local_tz \in TimeZones
    /\ clock \in NowValues
    /\ \/ /\ header_date \in RewriteDates
          /\ body \in RewriteBodies
          /\ rest \in Rests
       \/ /\ header_date = Date_early
          /\ body \in StringsUpTo(EscapeAlphabet, MaxContentLen)
          /\ rest = NextBlock
    /\ coll = <<>>
    /\ probe_text = ProbeText(header_date, body, rest)
    /\ parsed = [panic |-> FALSE, notes |-> <<>>]
    /\ idleEscape /\ idleGen /\ idleStore

\* save_notes on the notes the parse returned
SaveParsed ==
    /\ pc = "done"
    /\ ~parsed.panic
    /\ coll' = parsed.notes
    /\ probe_text' = save_text(parsed.notes, local_tz)
    /\ pc' = "saved"
    /\ UNCHANGED <<local_tz, clock, header_date, body, rest, parsed,
                   escapeVars, genVars, storeVars>>

\* parse_notes_from_text on the text save_notes wrote
ParseSaved ==
    /\ pc = "saved"
    /\ parsed' = parse_notes_from_text(probe_text, local_tz, clock)
    /\ pc' = "reparsed"
    /\ UNCHANGED <<local_tz, clock, header_date, body, rest, coll, probe_text,
                   escapeVars, genVars, storeVars>>

NextRewrite == ParseNotes \/ SaveParsed \/ ParseSaved

SpecRewrite == InitRewrite /\ [][NextRewrite]_vars

\* the sequence of (id, content) of the notes
PairSeq(ns) == [i \in 1..Len(ns) |-> <<ns[i].id, ns[i].content>>]

====
